---------------------------- MODULE Spec2Model ----------------------------
(***************************************************************************)
(* A model of NeuralRuntime (src/src/wasm/lib.rs): the validated           *)
(* activation, the jittered connection optimizer, the spike-rate counter,  *)
(* the mesh-efficiency score and the memory-pool bookkeeping.              *)
(*                                                                         *)
(* f32 values are modelled as fixed-point numbers: a finite value is an    *)
(* integer count of 1/Scale units, and NaN and the two infinities are      *)
(* values of their own.  Every f32 operation is the exact operation        *)
(* rounded to the nearest unit.  The backing Vec<f32> is modelled by its   *)
(* length and capacity: its elements are all 0.0 and are never read.       *)
(***************************************************************************)
EXTENDS Integers, Sequences, FiniteSets, TLC

VARIABLES memory_pool_len, memory_pool_cap, simd_enabled, operations_count,
          memory_usage, last, calls

vars == <<memory_pool_len, memory_pool_cap, simd_enabled, operations_count,
          memory_usage, last, calls>>

(***************************************************************************)
(* Bounds of the model.                                                    *)
(***************************************************************************)
\* Number of public calls made on one runtime.
MaxCalls == 3
\* Resolution of the fixed-point f32 values: units per 1.0.
Scale == 1000

(***************************************************************************)
(* Program constants.                                                      *)
(***************************************************************************)
\* inputs.len() > 10000
SizeLimit == 10000
\* input.abs() > 1000.0
MagnitudeLimit == 1000
\* Vec::with_capacity(1024 * 1024)
InitialCapacity == 1048576
\* memory_pool.len() > 1024 * 1024
ResetThreshold == 1048576
\* std::mem::size_of::<f32>()
SizeOfF32 == 4
\* the lane count of a v128 of f32
Lanes == 4

(***************************************************************************)
(* f32 values.                                                             *)
(***************************************************************************)
Fin(n) == [k |-> "fin", v |-> n]
NaN == [k |-> "nan", v |-> 0]
Inf(sgn) == [k |-> "inf", v |-> sgn]

\* A literal such as 0.5 or 1000.0, given in thousandths.
Lit(milli) == Fin((milli * Scale) \div 1000)

Sign(n) == IF n > 0 THEN 1 ELSE IF n < 0 THEN -1 ELSE 0
Abs(n) == IF n < 0 THEN -n ELSE n
\* n / d rounded to the nearest integer, d > 0.
RoundDiv(n, d) == Sign(n) * ((2 * Abs(n) + d) \div (2 * d))

is_finite(x) == x.k = "fin"
is_nan(x) == x.k = "nan"

f32_abs(x) == IF x.k = "nan" THEN NaN
              ELSE IF x.k = "inf" THEN Inf(1) ELSE Fin(Abs(x.v))

f32_neg(x) == IF x.k = "nan" THEN NaN ELSE [k |-> x.k, v |-> -x.v]

\* x > y; false when either is NaN.
f32_gt(x, y) ==
    IF x.k = "nan" \/ y.k = "nan" THEN FALSE
    ELSE IF x.k = "inf" THEN x.v = 1 /\ ~(y.k = "inf" /\ y.v = 1)
    ELSE IF y.k = "inf" THEN y.v = -1
    ELSE x.v > y.v

f32_lt(x, y) == f32_gt(y, x)

\* x <= y; false when either is NaN.
f32_le(x, y) == x.k # "nan" /\ y.k # "nan" /\ ~f32_gt(x, y)

f32_add(x, y) ==
    IF x.k = "nan" \/ y.k = "nan" THEN NaN
    ELSE IF x.k = "inf" /\ y.k = "inf" THEN (IF x.v = y.v THEN x ELSE NaN)
    ELSE IF x.k = "inf" THEN x
    ELSE IF y.k = "inf" THEN y
    ELSE Fin(x.v + y.v)

f32_sub(x, y) == f32_add(x, f32_neg(y))

f32_mul(x, y) ==
    IF x.k = "nan" \/ y.k = "nan" THEN NaN
    ELSE IF x.k = "inf" \/ y.k = "inf"
         THEN (IF Sign(x.v) * Sign(y.v) = 0 THEN NaN
               ELSE Inf(Sign(x.v) * Sign(y.v)))
    ELSE Fin(RoundDiv(x.v * y.v, Scale))

f32_div(x, y) ==
    IF x.k = "nan" \/ y.k = "nan" THEN NaN
    ELSE IF x.k = "inf"
         THEN (IF y.k = "inf" THEN NaN
               ELSE Inf(x.v * (IF y.v < 0 THEN -1 ELSE 1)))
    ELSE IF y.k = "inf" THEN Fin(0)
    ELSE IF y.v = 0 THEN (IF x.v = 0 THEN NaN ELSE Inf(Sign(x.v)))
    ELSE Fin(Sign(y.v) * RoundDiv(x.v * Scale, Abs(y.v)))

\* f32::clamp(min, max): NaN stays NaN.
f32_clamp(x, lo, hi) ==
    IF x.k = "nan" THEN NaN
    ELSE IF f32_lt(x, lo) THEN lo
    ELSE IF f32_gt(x, hi) THEN hi
    ELSE x

\* One lane of f32x4_min / f32x4_max: NaN if either operand is NaN.
lane_min(x, y) == IF x.k = "nan" \/ y.k = "nan" THEN NaN
                  ELSE IF f32_lt(y, x) THEN y ELSE x
lane_max(x, y) == IF x.k = "nan" \/ y.k = "nan" THEN NaN
                  ELSE IF f32_gt(y, x) THEN y ELSE x

\* A count (usize) as f32.
usize_as_f32(n) == Fin(n * Scale)

(***************************************************************************)
(* f32::tanh: Lambert's continued fraction                                 *)
(*   tanh s = s / (1 + s^2 / (3 + s^2 / (5 + ...)))                        *)
(* evaluated in fixed point to the term 17, which is exact to one unit;    *)
(* beyond |s| = 5 the value rounds to +-1.                                 *)
(***************************************************************************)
RECURSIVE TanhTail(_, _)
TanhTail(sq, j) ==
    IF j >= 8 THEN (2 * j + 1) * Scale
    ELSE (2 * j + 1) * Scale + RoundDiv(sq, TanhTail(sq, j + 1))

f32_tanh(x) ==
    IF x.k = "nan" THEN NaN
    ELSE IF x.k = "inf" THEN Fin(x.v * Scale)
    ELSE IF Abs(x.v) >= 5 * Scale THEN Fin(Sign(x.v) * Scale)
    ELSE Fin(RoundDiv(x.v * Scale, TanhTail(x.v * x.v, 0)))

(***************************************************************************)
(* u64 arithmetic for the generator.  A u64 is the tuple of its 8 bytes,   *)
(* the least significant first, so that the arithmetic wraps at 2^64 as    *)
(* wrapping_mul and wrapping_add do and no intermediate value leaves the   *)
(* range of the model checker's integers.  Byte k (0..7) is u[k + 1].      *)
(***************************************************************************)
RECURSIVE Pow2(_)
Pow2(n) == IF n = 0 THEN 1 ELSE 2 * Pow2(n - 1)

\* The tuple of the bytes F(0), ..., F(7).
Bytes8(F(_)) == <<F(0), F(1), F(2), F(3), F(4), F(5), F(6), F(7)>>

\* Byte k of u, 0 outside 0..7.
ByteAt(u, k) == IF k >= 0 /\ k <= 7 THEN u[k + 1] ELSE 0

\* `operations_count as u64`
U64OfU32(n) ==
    <<n % 256, (n \div 256) % 256, (n \div 65536) % 256, (n \div 16777216) % 256,
      0, 0, 0, 0>>

\* x ^ y on n-bit numbers.
RECURSIVE XorBits(_, _, _)
XorBits(x, y, n) ==
    IF n = 0 THEN 0
    ELSE (((x % 2) + (y % 2)) % 2) + 2 * XorBits(x \div 2, y \div 2, n - 1)

U64Xor(a, b) == Bytes8(LAMBDA k : XorBits(a[k + 1], b[k + 1], 8))

\* a << n and a >> n, 0 < n < 64.
U64Shl(a, n) ==
    Bytes8(LAMBDA k :
        ((ByteAt(a, k - (n \div 8)) * Pow2(n % 8)) % 256)
        + (ByteAt(a, k - (n \div 8) - 1) \div Pow2(8 - (n % 8))))

U64Shr(a, n) ==
    Bytes8(LAMBDA k :
        (ByteAt(a, k + (n \div 8)) \div Pow2(n % 8))
        + ((ByteAt(a, k + (n \div 8) + 1) * Pow2(8 - (n % 8))) % 256))

RECURSIVE AddFrom(_, _, _, _)
AddFrom(a, b, k, carry) ==
    IF k > 7 THEN <<>>
    ELSE LET s == a[k + 1] + b[k + 1] + carry
         IN  <<s % 256>> \o AddFrom(a, b, k + 1, s \div 256)

U64WrappingAdd(a, b) == AddFrom(a, b, 0, 0)

\* The sum of a[i] * b[k - i] for i in from..k: column k of the product.
RECURSIVE ColumnSum(_, _, _, _)
ColumnSum(a, b, k, from) ==
    IF from > k THEN 0
    ELSE a[from + 1] * b[k - from + 1] + ColumnSum(a, b, k, from + 1)

RECURSIVE MulFrom(_, _, _, _)
MulFrom(a, b, k, carry) ==
    IF k > 7 THEN <<>>
    ELSE LET s == ColumnSum(a, b, k, 0) + carry
         IN  <<s % 256>> \o MulFrom(a, b, k + 1, s \div 256)

U64WrappingMul(a, b) == MulFrom(a, b, 0, 0)

\* 6364136223846793005 = 0x5851F42D4C957F2D
LcgMultiplier == <<45, 127, 149, 76, 45, 244, 81, 88>>
\* 1442695040888963407 = 0x14057B7EF767814F
LcgIncrement == <<79, 129, 103, 247, 126, 123, 5, 20>>

\* The 20 most significant bits of a u64, as a number.
TopBits(x) == x[8] * 4096 + x[7] * 16 + x[6] \div 16

\* (x as f32) / (u64::MAX as f32): x / 2^64, at the fixed-point resolution.
U64ToUnitF32(x) == Fin((TopBits(x) * Scale) \div 1048576)

\* The xorshift scramble of the seed.
XorShift(seed) ==
    LET x1 == U64Xor(seed, U64Shl(seed, 13))
        x2 == U64Xor(x1, U64Shr(x1, 7))
    IN  U64Xor(x2, U64Shl(x2, 17))

\* pseudo_random(&self) as a function of self.operations_count.
PseudoRandomOf(oc) ==
    LET seed == U64WrappingAdd(
                    U64WrappingMul(U64OfU32(oc), LcgMultiplier), LcgIncrement)
    IN  U64ToUnitF32(XorShift(seed))

\* The draws of the counters the model reaches, computed once.
PseudoRandomTable == [oc \in 0..(MaxCalls + 1) * 101 |-> PseudoRandomOf(oc)]

pseudo_random(oc) ==
    IF oc \in DOMAIN PseudoRandomTable THEN PseudoRandomTable[oc]
    ELSE PseudoRandomOf(oc)

(***************************************************************************)
(* calculate_neural_activation and its two paths.                          *)
(***************************************************************************)
\* The index of the first element that fails a check, 0 if none does.
FirstInvalid(inputs) ==
    LET bad == {i \in 1..Len(inputs) :
                   \/ ~is_finite(inputs[i])
                   \/ f32_gt(f32_abs(inputs[i]), Fin(MagnitudeLimit * Scale))}
    IN  IF bad = {} THEN 0 ELSE CHOOSE i \in bad : \A j \in bad : i <= j

\* The validation with the two tests of an element in the other order.
ValidationErrorMagnitudeFirst(inputs) ==
    IF Len(inputs) > SizeLimit THEN "SizeLimitExceeded"
    ELSE LET i == FirstInvalid(inputs)
         IN  IF i = 0 THEN "none"
             ELSE IF f32_gt(f32_abs(inputs[i]), Fin(MagnitudeLimit * Scale))
                  THEN "OutOfBounds"
             ELSE "NonFiniteValue"

\* The panic the validation ends in, "none" if the input passes: the size
\* test first, then the elements in order, each for finiteness and then
\* for magnitude.
ValidationError(inputs) ==
    IF Len(inputs) > SizeLimit THEN "SizeLimitExceeded"
    ELSE LET i == FirstInvalid(inputs)
         IN  IF i = 0 THEN "none"
             ELSE IF ~is_finite(inputs[i]) THEN "NonFiniteValue"
             ELSE "OutOfBounds"

\* (x * 0.5).tanh()
ScalarActivation(x) == f32_tanh(f32_mul(x, Lit(500)))

\* One lane of simd_tanh_approx: x / (1 + |x|).
simd_tanh_approx(x) == f32_div(x, f32_add(Lit(1000), f32_abs(x)))

\* One lane of f32x4_mul(input_vec, f32x4_splat(0.5)) through the approximation.
SimdActivation(x) == simd_tanh_approx(f32_mul(x, Lit(500)))

scalar_neural_activation(inputs) ==
    [p \in 1..Len(inputs) |-> ScalarActivation(inputs[p])]

\* `if base_idx + 3 >= inputs.len() { break; }`.  The test is monotone in
\* base_idx, so the loop has left by group i exactly when it holds at i.
GroupBreaks(base_idx, len) == base_idx + 3 >= len

\* The alignment test taken on the element index instead of the byte offset.
GroupUnalignedByIndex(base_idx) == base_idx % 16 # 0

\* `if (base_idx * 4) % 16 != 0`: the byte offset of the group is unaligned.
GroupUnaligned(base_idx) == (base_idx * SizeOfF32) % 16 # 0

\* What simd_neural_activation leaves in outputs[q] (q counted from 0).
SimdActivationAt(inputs, q) ==
    LET len == Len(inputs)
        chunks == len \div Lanes
        base_idx == (q \div Lanes) * Lanes
    IN  IF q >= chunks * Lanes THEN ScalarActivation(inputs[q + 1])
        ELSE IF GroupBreaks(base_idx, len) THEN Lit(0)
        ELSE IF GroupUnaligned(base_idx) THEN ScalarActivation(inputs[q + 1])
        ELSE SimdActivation(inputs[q + 1])

simd_neural_activation(inputs) ==
    [p \in 1..Len(inputs) |-> SimdActivationAt(inputs, p - 1)]

\* The dispatch `self.simd_enabled && len >= 4`, shared by the operations.
UsesSimd(simd, len) == simd /\ len >= Lanes

(***************************************************************************)
(* optimize_connections and its two paths.  Both paths take &self, so      *)
(* every draw of one call reads the same self.operations_count.  Each      *)
(* element of the result records the value written and the number (1, 2,   *)
(* ... in the order of the pseudo_random calls) of the draw it used.       *)
(***************************************************************************)
\* A generator that advances the counter at every draw.
DrawCounterAdvancing(oc, k) == oc + k - 1

\* The operations_count that the k-th pseudo_random call of one
\* optimize_connections call reads, oc being the count after `+= 1`.
DrawCounter(oc, k) == oc

\* The value of the k-th pseudo_random call of the call.
Draw(oc, k) == pseudo_random(DrawCounter(oc, k))

\* `(self.pseudo_random() - 0.5) * 0.1` then `(w + adjustment).clamp(0.0, 1.0)`
ScalarOptimize(w, r) ==
    f32_clamp(f32_add(w, f32_mul(f32_sub(r, Lit(500)), Lit(100))),
              Lit(0), Lit(1000))

scalar_optimize_connections(oc, connections) ==
    [p \in 1..Len(connections) |->
        [out |-> ScalarOptimize(connections[p], Draw(oc, p)), draw |-> p]]

\* The four draws put in the lanes in the reverse order.
simd_random_vec_reversed(oc, drawn) ==
    [j \in 1..Lanes |->
        [val |-> f32_sub(Draw(oc, drawn + Lanes + 1 - j), Lit(500)),
         draw |-> drawn + Lanes + 1 - j]]

\* simd_random_vec after `drawn` earlier draws: the lanes of
\* f32x4(r1, r2, r3, r4), each with the number of the draw it holds.
simd_random_vec(oc, drawn) ==
    [j \in 1..Lanes |->
        [val |-> f32_sub(Draw(oc, drawn + j), Lit(500)), draw |-> drawn + j]]

\* One lane of the group: add the scaled adjustment, then
\* f32x4_max(zero, f32x4_min(one, adjusted)).
SimdOptimize(w, adj) ==
    lane_max(Lit(0), lane_min(Lit(1000), f32_add(w, f32_mul(adj, Lit(100)))))

\* What simd_optimize_connections leaves in optimized[q] (q counted from 0).
SimdOptimizeAt(oc, connections, q) ==
    LET chunks == Len(connections) \div Lanes
        base_idx == (q \div Lanes) * Lanes
    IN  IF q >= chunks * Lanes
        THEN \* the groups drew chunks * 4 times, the tail before q drew
             \* q - chunks * 4 times
             [out |-> ScalarOptimize(connections[q + 1], Draw(oc, q + 1)),
              draw |-> q + 1]
        ELSE LET lane == simd_random_vec(oc, base_idx)[q - base_idx + 1]
             IN  [out |-> SimdOptimize(connections[q + 1], lane.val),
                  draw |-> lane.draw]

simd_optimize_connections(oc, connections) ==
    [p \in 1..Len(connections) |-> SimdOptimizeAt(oc, connections, p - 1)]

(***************************************************************************)
(* process_spike_train.                                                    *)
(***************************************************************************)
IsSpike(x) == f32_gt(x, Lit(100))

\* spikes.iter().filter(|&&x| x > 0.1).count() as f32
ScalarCountSpikes(spikes) ==
    usize_as_f32(Cardinality({p \in 1..Len(spikes) : IsSpike(spikes[p])}))

\* The groups count their four elements one by one, then the tail.
simd_count_spikes(spikes) ==
    LET chunks == Len(spikes) \div Lanes
        inGroups == {p \in 1..(chunks * Lanes) : IsSpike(spikes[p])}
        inTail == {p \in (chunks * Lanes + 1)..Len(spikes) : IsSpike(spikes[p])}
    IN  usize_as_f32(Cardinality(inGroups) + Cardinality(inTail))

\* The value process_spike_train returns.
SpikeRate(simd, spikes, window_size) ==
    IF Len(spikes) = 0 \/ f32_le(window_size, Lit(0))
    THEN Lit(0)
    ELSE LET spike_count == IF UsesSimd(simd, Len(spikes))
                            THEN simd_count_spikes(spikes)
                            ELSE ScalarCountSpikes(spikes)
         IN  f32_div(spike_count, f32_div(window_size, Lit(1000000)))

(***************************************************************************)
(* calculate_mesh_efficiency and simd_sum.                                 *)
(***************************************************************************)
RECURSIVE SumFrom(_, _, _)
SumFrom(values, from, to) ==
    IF from > to THEN Lit(0)
    ELSE f32_add(values[from], SumFrom(values, from + 1, to))

\* values.iter().sum::<f32>()
ScalarSum(values) == SumFrom(values, 1, Len(values))

\* simd_sum stores the lane accumulator through a pointer taken from the
\* immutable sum_array and then sums sum_array.  Writing through that
\* pointer is undefined behaviour: the build either reads the stored lanes
\* (stored = TRUE) or still sees the zeros it was initialised with.
simd_sum(values, stored) ==
    LET chunks == Len(values) \div Lanes
        lanes == IF stored THEN SumFrom(values, 1, chunks * Lanes) ELSE Lit(0)
    IN  f32_add(lanes, SumFrom(values, chunks * Lanes + 1, Len(values)))

Mean(simd, values, stored) ==
    f32_div(IF UsesSimd(simd, Len(values)) THEN simd_sum(values, stored)
            ELSE ScalarSum(values),
            usize_as_f32(Len(values)))

\* The value calculate_mesh_efficiency returns.
MeshEfficiency(simd, neurons, synapses, stored) ==
    IF Len(neurons) = 0 \/ Len(synapses) = 0 THEN Lit(0)
    ELSE f32_mul(Mean(simd, neurons, stored), Mean(simd, synapses, stored))

(***************************************************************************)
(* The memory pool.                                                        *)
(***************************************************************************)
Max(a, b) == IF a >= b THEN a ELSE b

\* The subtraction without the saturation.
unchecked_sub(a, b) == a - b

\* usize::saturating_sub
saturating_sub(a, b) == IF a >= b THEN a - b ELSE 0

\* The capacity after Vec::reserve(additional) on a Vec<f32> of the given
\* length and capacity: unchanged if the room is there, else the amortized
\* growth max(2 * cap, len + additional, 4).
ReservedCapacity(len, cap, additional) ==
    IF cap - len >= additional THEN cap
    ELSE Max(Max(2 * cap, len + additional), 4)

\* The capacity after allocate_memory's `if len + required > capacity
\* { reserve(required) }` and its resize, which then finds the room.
AllocatedCapacity(len, cap, required_floats) ==
    IF len + required_floats > cap
    THEN ReservedCapacity(len, cap, required_floats)
    ELSE cap

\* The reset already at the threshold.
PoolResetsAtThreshold(len) == len >= ResetThreshold

\* `if self.memory_pool.len() > 1024 * 1024`
PoolResets(len) == len > ResetThreshold

\* The size rounded up to whole floats.
RequiredFloatsRoundedUp(size) == (size + SizeOfF32 - 1) \div SizeOfF32

\* `let required_floats = size / std::mem::size_of::<f32>()`
RequiredFloats(size) == size \div SizeOfF32

\* The usage with the capacity counted in elements.
MemoryUsageInElements(usage, cap) == usage + cap

\* get_memory_usage
MemoryUsageOf(usage, cap) == usage + cap * SizeOfF32

(***************************************************************************)
(* The inputs the calls are made with.                                     *)
(***************************************************************************)
\* The sequences over S of length at most n.
SeqsUpTo(S, n) == UNION {[1..m -> S] : m \in 0..n}

\* The sequence of length n that repeats pattern.
Repeat(pattern, n) == [p \in 1..n |-> pattern[((p - 1) % Len(pattern)) + 1]]

\* Lengths below, at and above one and two lane groups.
VectorLengths == {3, 4, 5, 8, 9}

ActivationPattern == <<Lit(500), Lit(-2000), Lit(1000000), Lit(3000), Lit(-1000000)>>

ActivationInputs ==
    SeqsUpTo({Lit(500), Lit(1000000), Lit(2000000), NaN, Inf(1)}, 2)
    \cup {Repeat(ActivationPattern, n) : n \in VectorLengths}
    \cup {[Repeat(ActivationPattern, 5) EXCEPT ![5] = NaN],
          [Repeat(ActivationPattern, 9) EXCEPT ![2] = Lit(-1000001), ![6] = Inf(-1)]}
    \cup {Repeat(<<Lit(500)>>, SizeLimit + 1),
          Repeat(<<NaN, Lit(500)>>, SizeLimit + 1)}

ConnectionPattern == <<Lit(500), Lit(980), Lit(20), Lit(0), Lit(1000), Lit(1700), Lit(-300)>>

ConnectionInputs ==
    SeqsUpTo({Lit(500), Lit(990), NaN, Inf(1)}, 1)
    \cup {Repeat(ConnectionPattern, n) : n \in VectorLengths}
    \cup {[Repeat(ConnectionPattern, 9) EXCEPT ![3] = NaN, ![9] = Inf(-1)]}

SpikeInputs ==
    {<<>>, <<Lit(200), Lit(50), Lit(300)>>,
     <<Lit(200), Lit(50), Lit(300), Lit(500)>>,
     <<Lit(100), Lit(101), Lit(0), Lit(900), Lit(700)>>}

WindowInputs == {Lit(1000000), Lit(100000), Lit(0), Lit(-5000)}

NeuronInputs == {<<>>, <<Lit(500), Lit(500)>>,
                 <<Lit(100), Lit(200), Lit(300), Lit(400), Lit(500)>>}

SynapseInputs == {<<>>, <<Lit(1000), Lit(1000)>>,
                  <<Lit(1000), Lit(2000), Lit(1000), Lit(2000)>>}

\* Byte counts: the spec's examples, one that is no multiple of 4, and the
\* two that fill the pool to exactly and to one more than 1024 * 1024 floats.
AllocateSizes == {400, 1002, SizeOfF32 * ResetThreshold,
                  SizeOfF32 * (ResetThreshold + 1)}

DeallocateSizes == {400, 1000}

(***************************************************************************)
(* The benchmark's input and loop.                                         *)
(***************************************************************************)
\* let test_size = 10000
TestSize == 10000
\* for _ in 0..100
BenchmarkLoops == 100

\* (0..test_size).map(|i| (i as f32) / test_size as f32)
BenchmarkData == [p \in 1..TestSize |-> Fin(RoundDiv((p - 1) * Scale, TestSize))]

\* The panic calculate_neural_activation(&test_data) ends in, if any.
BenchmarkError == ValidationError(BenchmarkData)

(***************************************************************************)
(* The runtime.  `last` records the latest call: its name, its arguments,  *)
(* what it returned (out and the draw numbers, val, num), the panic it     *)
(* ended in (err) and the fields of the runtime before it (pre).  `calls`  *)
(* counts the calls made, to bound the runs.                               *)
(***************************************************************************)
\* detect_simd_support
detect_simd_support == TRUE

\* The call left uncounted.
CountOperationSkipped(oc) == oc

\* A counter one bit wide.
CountOperationNarrow(oc) == (oc + 1) % 2

\* `self.operations_count += 1`
CountOperation(oc) == oc + 1

Fields == [oc |-> operations_count, mu |-> memory_usage,
           len |-> memory_pool_len, cap |-> memory_pool_cap]

NoCall == [op |-> "new", in1 |-> <<>>, in2 |-> <<>>, win |-> Lit(0), size |-> 0,
           out |-> <<>>, draws |-> <<>>, val |-> Lit(0), num |-> 0,
           err |-> "none",
           pre |-> [oc |-> 0, mu |-> 0, len |-> 0, cap |-> InitialCapacity]]

Call(op) == [NoCall EXCEPT !.op = op, !.pre = Fields]

\* NeuralRuntime::new
Init ==
    /\ memory_pool_len = 0
    /\ memory_pool_cap = InitialCapacity
    /\ simd_enabled = detect_simd_support
    /\ operations_count = 0
    /\ memory_usage = 0
    /\ last = NoCall
    /\ calls = 0

Pool == <<memory_pool_len, memory_pool_cap>>

calculate_neural_activation(inputs) ==
    /\ calls < MaxCalls
    /\ calls' = calls + 1
    /\ LET e == ValidationError(inputs)
       IN  IF e # "none"
           THEN /\ last' = [Call("activate") EXCEPT !.in1 = inputs, !.err = e]
                /\ UNCHANGED operations_count
           ELSE /\ operations_count' = CountOperation(operations_count)
                /\ last' = [Call("activate") EXCEPT
                                !.in1 = inputs,
                                !.out = IF UsesSimd(simd_enabled, Len(inputs))
                                        THEN simd_neural_activation(inputs)
                                        ELSE scalar_neural_activation(inputs)]
    /\ UNCHANGED <<Pool, simd_enabled, memory_usage>>

optimize_connections(connections) ==
    /\ calls < MaxCalls
    /\ calls' = calls + 1
    /\ operations_count' = CountOperation(operations_count)
    /\ LET res == IF UsesSimd(simd_enabled, Len(connections))
                  THEN simd_optimize_connections(operations_count', connections)
                  ELSE scalar_optimize_connections(operations_count', connections)
       IN  last' = [Call("optimize") EXCEPT
                       !.in1 = connections,
                       !.out = [p \in 1..Len(res) |-> res[p].out],
                       !.draws = [p \in 1..Len(res) |-> res[p].draw]]
    /\ UNCHANGED <<Pool, simd_enabled, memory_usage>>

process_spike_train(spikes, window_size) ==
    /\ calls < MaxCalls
    /\ calls' = calls + 1
    /\ operations_count' = CountOperation(operations_count)
    /\ last' = [Call("spike_rate") EXCEPT
                    !.in1 = spikes, !.win = window_size,
                    !.val = SpikeRate(simd_enabled, spikes, window_size)]
    /\ UNCHANGED <<Pool, simd_enabled, memory_usage>>

calculate_mesh_efficiency(neurons, synapses, stored) ==
    /\ calls < MaxCalls
    /\ calls' = calls + 1
    /\ operations_count' = CountOperation(operations_count)
    /\ last' = [Call("mesh_efficiency") EXCEPT
                    !.in1 = neurons, !.in2 = synapses,
                    !.val = MeshEfficiency(simd_enabled, neurons, synapses, stored)]
    /\ UNCHANGED <<Pool, simd_enabled, memory_usage>>

get_memory_usage ==
    /\ calls < MaxCalls
    /\ calls' = calls + 1
    /\ last' = [Call("memory_usage") EXCEPT
                    !.num = MemoryUsageOf(memory_usage, memory_pool_cap)]
    /\ UNCHANGED <<Pool, simd_enabled, operations_count, memory_usage>>

allocate_memory(size) ==
    /\ calls < MaxCalls
    /\ calls' = calls + 1
    /\ LET required_floats == RequiredFloats(size)
           ptr == memory_pool_len
       IN  /\ memory_pool_cap' =
                  AllocatedCapacity(memory_pool_len, memory_pool_cap, required_floats)
           /\ memory_pool_len' = memory_pool_len + required_floats
           /\ memory_usage' = memory_usage + size
           /\ last' = [Call("allocate") EXCEPT
                           !.size = size, !.num = ptr * SizeOfF32]
    /\ UNCHANGED <<simd_enabled, operations_count>>

deallocate_memory(size) ==
    /\ calls < MaxCalls
    /\ calls' = calls + 1
    /\ memory_usage' = saturating_sub(memory_usage, size)
    /\ IF PoolResets(memory_pool_len)
       THEN \* clear() and shrink_to_fit()
            memory_pool_len' = 0 /\ memory_pool_cap' = 0
       ELSE UNCHANGED Pool
    /\ last' = [Call("deallocate") EXCEPT !.size = size]
    /\ UNCHANGED <<simd_enabled, operations_count>>

get_operations_count ==
    /\ calls < MaxCalls
    /\ calls' = calls + 1
    /\ last' = [Call("operations_count") EXCEPT !.num = operations_count]
    /\ UNCHANGED <<Pool, simd_enabled, operations_count, memory_usage>>

simd_supported ==
    /\ calls < MaxCalls
    /\ calls' = calls + 1
    /\ last' = [Call("simd_supported") EXCEPT
                    !.num = IF simd_enabled THEN 1 ELSE 0]
    /\ UNCHANGED <<Pool, simd_enabled, operations_count, memory_usage>>

reset_metrics ==
    /\ calls < MaxCalls
    /\ calls' = calls + 1
    /\ operations_count' = 0
    /\ memory_usage' = 0
    /\ last' = Call("reset_metrics")
    /\ UNCHANGED <<Pool, simd_enabled>>

\* The counter after n iterations of the benchmark loop, each a
\* calculate_neural_activation(&test_data) that passes validation: the
\* count after the first half of the iterations, then the rest from there.
RECURSIVE CountLoop(_, _)
CountLoop(oc, n) ==
    IF n = 0 THEN oc
    ELSE IF n = 1 THEN CountOperation(oc)
    ELSE CHOOSE after \in {CountLoop(half, n - (n \div 2)) :
                               half \in {CountLoop(oc, n \div 2)}} : TRUE

\* benchmark: the loop of activations and, in the result, get_memory_usage.
\* The clock readings and the figures derived from them are left out.
benchmark ==
    /\ calls < MaxCalls
    /\ calls' = calls + 1
    /\ IF BenchmarkError # "none"
       THEN /\ last' = [Call("benchmark") EXCEPT
                           !.in1 = BenchmarkData, !.err = BenchmarkError]
            /\ UNCHANGED operations_count
       ELSE /\ operations_count' = CountLoop(operations_count, BenchmarkLoops)
            /\ last' = [Call("benchmark") EXCEPT
                           !.size = TestSize,
                           !.num = MemoryUsageOf(memory_usage, memory_pool_cap)]
    /\ UNCHANGED <<Pool, simd_enabled, memory_usage>>

Next ==
    \/ \E inputs \in ActivationInputs : calculate_neural_activation(inputs)
    \/ \E connections \in ConnectionInputs : optimize_connections(connections)
    \/ \E spikes \in SpikeInputs, window_size \in WindowInputs :
          process_spike_train(spikes, window_size)
    \/ \E neurons \in NeuronInputs, synapses \in SynapseInputs, stored \in BOOLEAN :
          calculate_mesh_efficiency(neurons, synapses, stored)
    \/ get_memory_usage
    \/ \E size \in AllocateSizes : allocate_memory(size)
    \/ \E size \in DeallocateSizes : deallocate_memory(size)
    \/ get_operations_count
    \/ simd_supported
    \/ reset_metrics
    \/ benchmark

Spec == Init /\ [][Next]_vars

(***************************************************************************)
(* Properties.                                                             *)
(***************************************************************************)
\* The value get_memory_usage returns in the fields f.
UsageIn(f) == MemoryUsageOf(f.mu, f.cap)

\* C1: memory_usage is never negative, and deallocate(n) leaves it at
\* max(memory_usage - n, 0): at exactly 0 when n exceeds what is recorded.
C1_DeallocateSaturates ==
    /\ memory_usage >= 0
    /\ last.op = "deallocate" =>
          /\ memory_usage = Max(last.pre.mu - last.size, 0)
          /\ last.size > last.pre.mu => memory_usage = 0

\* C1 witness: deallocate(1000) with 400 bytes recorded has left 0.
C1_Witness ==
    /\ last.op = "deallocate"
    /\ last.size = 1000
    /\ last.pre.mu = 400
    /\ memory_usage = 0

TooLong(inputs) == Len(inputs) > SizeLimit
HasNonFinite(inputs) == \E i \in 1..Len(inputs) : ~is_finite(inputs[i])
HasOutOfBounds(inputs) ==
    \E i \in 1..Len(inputs) :
        is_finite(inputs[i]) /\ Abs(inputs[i].v) > MagnitudeLimit * Scale

\* A failed activate produced nothing and changed no field of the runtime.
FailedBeforeComputation ==
    /\ last.out = <<>>
    /\ Fields = last.pre

\* C2 as stated: activate fails exactly when the input is too long or holds
\* a non-finite or an out-of-bounds element, with SizeLimitExceeded whenever
\* it is too long, NonFiniteValue whenever an element is NaN or infinite and
\* OutOfBounds whenever an element's magnitude exceeds 1000.0; a failure
\* produces no output and changes no state.
C2_Original ==
    last.op = "activate" =>
        /\ last.err # "none" <=>
              \/ TooLong(last.in1)
              \/ HasNonFinite(last.in1)
              \/ HasOutOfBounds(last.in1)
        /\ TooLong(last.in1) => last.err = "SizeLimitExceeded"
        /\ HasNonFinite(last.in1) => last.err = "NonFiniteValue"
        /\ HasOutOfBounds(last.in1) => last.err = "OutOfBounds"
        /\ last.err # "none" => FailedBeforeComputation

\* C2 amended: activate fails exactly when the input is too long or holds a
\* non-finite or an out-of-bounds element.  The kind is that of the first
\* test to fail: SizeLimitExceeded whenever the input is too long; otherwise
\* the first element that is non-finite or out of bounds decides,
\* NonFiniteValue if it is NaN or infinite and OutOfBounds if it is finite.
\* A failure produces no output and changes no state; the benchmark's
\* 10000 elements pass.
C2_FirstFailingCheckDecides ==
    /\ last.op = "activate" =>
          /\ last.err # "none" <=>
                \/ TooLong(last.in1)
                \/ HasNonFinite(last.in1)
                \/ HasOutOfBounds(last.in1)
          /\ TooLong(last.in1) => last.err = "SizeLimitExceeded"
          /\ ~TooLong(last.in1) =>
                \A i \in 1..Len(last.in1) :
                    /\ \A j \in 1..(i - 1) :
                          /\ is_finite(last.in1[j])
                          /\ Abs(last.in1[j].v) <= MagnitudeLimit * Scale
                    /\ ~is_finite(last.in1[i])
                          \/ Abs(last.in1[i].v) > MagnitudeLimit * Scale
                    => last.err = IF is_finite(last.in1[i]) THEN "OutOfBounds"
                                  ELSE "NonFiniteValue"
          /\ last.err # "none" => FailedBeforeComputation
    /\ last.op = "benchmark" => last.err = "none"

\* C2 witness: an input with a NaN after an out-of-bounds element has
\* failed with OutOfBounds.
C2_Witness ==
    /\ last.op = "activate"
    /\ last.err = "OutOfBounds"
    /\ HasNonFinite(last.in1)
    /\ FailedBeforeComputation

Computes == {"optimize", "spike_rate", "mesh_efficiency"}

\* C3: every successful activate, optimize, spike_rate and mesh_efficiency
\* raises operations_count by exactly one, on either path and on the early
\* zero result; the benchmark's loop raises it by one per activation.
C3_OneCountPerCall ==
    /\ last.op \in Computes \/ (last.op = "activate" /\ last.err = "none")
          => operations_count = last.pre.oc + 1
    /\ last.op = "benchmark" => operations_count = last.pre.oc + BenchmarkLoops

\* C3 witness: a spike_rate call with a non-positive window has returned
\* the zero result early and is counted, after an earlier counted call.
C3_Witness ==
    /\ last.op = "spike_rate"
    /\ Len(last.in1) >= Lanes
    /\ f32_le(last.win, Lit(0))
    /\ last.val = Lit(0)
    /\ last.pre.oc > 0
    /\ operations_count = last.pre.oc + 1

\* C4 as stated: operations_count never decreases from one state to the
\* next, whichever public operation is called.
C4_Original == operations_count >= last.pre.oc

\* C4 amended: operations_count never decreases over any public operation
\* other than reset_metrics, which sets it to 0.
C4_MonotonicExceptReset ==
    /\ last.op # "reset_metrics" => operations_count >= last.pre.oc
    /\ last.op = "reset_metrics" => operations_count = 0

\* C4 witness: reset_metrics has taken a positive count back to 0.
C4_Witness ==
    /\ last.op = "reset_metrics"
    /\ last.pre.oc > 0
    /\ operations_count = 0

\* C5: whichever path ran, optimize's output is the scalar path's output
\* for the same counter, element p used the p-th draw of the call, and
\* out[p] = clamp(connections[p] + (draw_p - 0.5) * 0.1, 0.0, 1.0).
C5_PathsAgree ==
    last.op = "optimize" =>
        LET scalar == scalar_optimize_connections(operations_count, last.in1)
        IN  /\ Len(last.out) = Len(last.in1)
            /\ Len(last.draws) = Len(last.in1)
            /\ \A p \in 1..Len(last.in1) :
                  /\ last.out[p] = scalar[p].out
                  /\ last.draws[p] = p
                  /\ last.out[p] =
                        f32_clamp(
                            f32_add(last.in1[p],
                                    f32_mul(f32_sub(Draw(operations_count, p),
                                                    Lit(500)),
                                            Lit(100))),
                            Lit(0), Lit(1000))

\* C5 witness: an optimize call over two lane groups and a tail, with a NaN
\* in a group, has run on the lane-grouped path.
C5_Witness ==
    /\ last.op = "optimize"
    /\ UsesSimd(simd_enabled, Len(last.in1))
    /\ Len(last.in1) = 2 * Lanes + 1
    /\ is_nan(last.in1[3])
    /\ is_nan(last.out[3])

\* C6: activate's output has the length of its input; below 4 elements every
\* element is tanh(x * 0.5); from 4 elements on every element of a full
\* group is s / (1 + |s|) with s = x * 0.5, every element after the last
\* full group is tanh(x * 0.5), and so is every element of a group whose
\* byte offset is not a multiple of 16.
C6_OneFormulaPerIndex ==
    last.op = "activate" /\ last.err = "none" =>
        LET len == Len(last.in1)
            grouped == IF simd_enabled /\ len >= 4 THEN 4 * (len \div 4) ELSE 0
            s(p) == f32_mul(last.in1[p], Lit(500))
        IN  /\ Len(last.out) = len
            /\ \A p \in 1..len :
                  /\ p <= grouped =>
                        last.out[p] = f32_div(s(p), f32_add(Lit(1000), f32_abs(s(p))))
                  /\ p > grouped => last.out[p] = f32_tanh(s(p))
                  /\ p <= grouped /\ (4 * (4 * ((p - 1) \div 4))) % 16 # 0 =>
                        last.out[p] = f32_tanh(s(p))

\* C6 witness: an activate call over two full groups and a tail whose
\* grouped elements differ from the exact tanh has succeeded.
C6_Witness ==
    /\ last.op = "activate"
    /\ last.err = "none"
    /\ Len(last.in1) = 2 * Lanes + 1
    /\ last.out[Lanes + 1] # f32_tanh(f32_mul(last.in1[Lanes + 1], Lit(500)))
    /\ last.out[2 * Lanes + 1] = f32_tanh(f32_mul(last.in1[2 * Lanes + 1], Lit(500)))

\* C7: allocate(size) returns the length before the call times 4, grows the
\* length by floor(size / 4), adds size to memory_usage and leaves
\* operations_count alone.
C7_AllocateBookkeeping ==
    last.op = "allocate" =>
        /\ last.num = last.pre.len * 4
        /\ memory_pool_len = last.pre.len + (last.size \div 4)
        /\ memory_usage = last.pre.mu + last.size
        /\ operations_count = last.pre.oc

\* C7 witness: an allocation of a size that is no multiple of 4, made on a
\* pool that already holds elements and after a counted call.
C7_Witness ==
    /\ last.op = "allocate"
    /\ last.size % 4 # 0
    /\ last.pre.len > 0
    /\ last.pre.oc > 0

\* C8 as stated: get_usage() after allocate(n) is get_usage() before it
\* plus n, in every reachable state.
C8_Original ==
    last.op = "allocate" => UsageIn(Fields) = UsageIn(last.pre) + last.size

\* C8 amended: get_usage() after allocate(n) is get_usage() before it plus
\* n whenever the length before plus floor(n / 4) does not exceed the
\* capacity; when it does, the capacity grows and get_usage() rises by n
\* plus 4 times the growth of the capacity.
C8_UsageRisesBySizeAndGrowth ==
    last.op = "allocate" =>
        /\ last.pre.len + (last.size \div 4) <= last.pre.cap =>
              UsageIn(Fields) = UsageIn(last.pre) + last.size
        /\ last.pre.len + (last.size \div 4) > last.pre.cap =>
              /\ memory_pool_cap > last.pre.cap
              /\ UsageIn(Fields) = UsageIn(last.pre) + last.size
                                   + 4 * (memory_pool_cap - last.pre.cap)

\* C8 witness: allocate(400) on a pool with room that already records
\* usage has raised get_usage() by 400.
C8_Witness ==
    /\ last.op = "allocate"
    /\ last.size = 400
    /\ last.pre.mu > 0
    /\ last.pre.len + 100 <= last.pre.cap
    /\ UsageIn(Fields) = UsageIn(last.pre) + 400

\* C9: deallocate resets the pool exactly when its length exceeds 1,048,576
\* at the call, whatever the size: length and capacity become 0, get_usage()
\* is then memory_usage and the next allocate returns offset 0; at or below
\* 1,048,576 the length and the capacity stay as they were.
C9_ResetAboveThreshold ==
    /\ last.op = "deallocate" =>
          IF last.pre.len > 1048576
          THEN /\ memory_pool_len = 0
               /\ memory_pool_cap = 0
               /\ UsageIn(Fields) = memory_usage
          ELSE /\ memory_pool_len = last.pre.len
               /\ memory_pool_cap = last.pre.cap
    /\ last.op = "allocate" /\ last.pre.cap = 0 => last.num = 0

\* C9 witness: the allocate that follows a reset has returned offset 0.
C9_Witness ==
    /\ last.op = "allocate"
    /\ last.pre.cap = 0
    /\ last.pre.len = 0
    /\ last.num = 0
    /\ memory_pool_len > 0

=============================================================================
